---- MODULE Spec2Model ----
(***************************************************************************)
(* Message synchronisation of the chat page: the useChatStream hook (SSE   *)
(* connection, failure counter, polling fallback, cool-down timer), the    *)
(* react-query message cache it writes to, the fallback poll of            *)
(* useChatMessages and the submit path of usePostMessage.                  *)
(*                                                                         *)
(* One hook instance is modelled.  A React render together with the flush  *)
(* of its effects is one step (clean-ups of the changed effects first, in  *)
(* declaration order, then the effect bodies, in declaration order).       *)
(* Handlers write refs at once and queue a state update; the queued value  *)
(* (isPollingFallbackActive) becomes the rendered one (rendered) at the     *)
(* next render.                                                            *)
(***************************************************************************)
EXTENDS Integers, Sequences, FiniteSets, TLC

\* ---- program constants ------------------------------------------------
MAX_CONSECUTIVE_FAILURES == 3

\* ---- bounds -------------------------------------------------------------
MaxConns    == 2    \* EventSource instances not closed at once (the code
                    \* keeps at most one)
MaxTimers   == 2    \* timers pending at once (the code keeps at most one)
MaxFailures == 4    \* cap of failureCountRef
MaxStoreLen == 2    \* entries of one conversation's message list
MaxPosts    == 1    \* POST requests in flight at once

\* ---- data ---------------------------------------------------------------
NoChat  == "none"
ChatIds == {"c1", "c2"}
Keys    == ChatIds \cup {NoChat}

\* uuids are server-issued and unique; each belongs to one conversation.
\* The messages of the runs are those of c1; c2 is a conversation without
\* messages yet.
Uuids == {"u1", "a1"}
ChatOf(u) == "c1"
RoleOf(u) == IF u = "u1" THEN "user" ELSE "assistant"

Contents == {"partial", "whole"}

Msg(u, p, t) ==
  [uuid |-> u, role |-> RoleOf(u), chat_id |-> ChatOf(u),
   in_progress |-> p, content |-> t]

\* the user's message is stored whole; an assistant message of c1 takes every
\* combination of flag and content
Messages ==
  { Msg("u1", FALSE, t) : t \in Contents }
  \cup { Msg("a1", p, t) : p \in BOOLEAN, t \in Contents }

MessagesOf(c) == { m \in Messages : m.chat_id = c }

\* duplicate-free message lists of conversation c, as the server sends them
RECURSIVE ListsUpTo(_, _)
ListsUpTo(c, n) ==
  IF n = 0 THEN { <<>> }
  ELSE LET shorter == ListsUpTo(c, n - 1)
       IN  shorter \cup
           { Append(l, m) : l \in { x \in shorter : Len(x) = n - 1 },
                            m \in MessagesOf(c) }

\* lists of at most n messages of the set msgs
RECURSIVE ListsOver(_, _)
ListsOver(msgs, n) ==
  IF n = 0 THEN { <<>> }
  ELSE LET shorter == ListsOver(msgs, n - 1)
       IN  shorter \cup
           { Append(l, m) : l \in { x \in shorter : Len(x) = n - 1 },
                            m \in msgs }

HasUuid(l, u) == \E i \in 1..Len(l) : l[i].uuid = u
NoDup(l) == \A i, j \in 1..Len(l) : l[i].uuid = l[j].uuid => i = j
ListsTable ==
  [c \in Keys |-> { l \in ListsUpTo(c, MaxStoreLen) : NoDup(l) }]
ServerLists(c) == ListsTable[c]

VARIABLES
  phase,                    \* "init" | "mounted" | "unmounted"
  chatId,                   \* chatId of the last render
  isPollingFallbackActive,  \* the state's current (queued) value
  rendered,                 \* isPollingFallbackActive as of the last render
  failureCountRef,
  retryTimeoutRef,          \* 0 = undefined, else the timer id
  timers,                   \* ids of the pending window timers
  conns,                    \* EventSource instances that are not closed, by
                            \* slot: chat of the url, readyState ("none" for a
                            \* free slot), error events since the last open event
  closed,                   \* chats of the urls of the closed instances
  es,                       \* eventSource of the live stream effect, 0 = none
  store,                    \* react-query cache: chatKeys.messages(id) -> list
  fetching,                 \* a GET of the rendered conversation's list is in flight
  inflight,                 \* conversations with a POST in flight
  chatList,                 \* react-query cache: chatKeys.chatList(), as the
                            \* set of the conversations listed
  sessionChatId,            \* chatId of useChatSession's last render
  chatDraft,                \* useChatSession's state
  drafts,                   \* localStorage item 'chat-draft': key -> draft
  submitting,               \* the handleSubmit call that awaits its request
  log                       \* the last step: the payload it handled, if any,
                            \* then the calls it made, in order

vars == <<phase, chatId, isPollingFallbackActive, rendered, failureCountRef,
          retryTimeoutRef, timers, conns, closed, es, store, fetching,
          inflight, chatList, sessionChatId, chatDraft, drafts, submitting,
          log>>

\* the variables of useChatSession
sessionVars == <<sessionChatId, chatDraft, drafts, submitting>>

\* The mutable state as one record, so that a handler is the composition of
\* its statements in source order.
St ==
  [phase |-> phase, chatId |-> chatId, fallback |-> isPollingFallbackActive,
   rendered |-> rendered, failureCount |-> failureCountRef,
   retryRef |-> retryTimeoutRef, timers |-> timers, conns |-> conns,
   closed |-> closed, es |-> es, store |-> store, fetching |-> fetching, inflight |-> inflight,
   chatList |-> chatList, log |-> <<>>]

Commit(s) ==
  /\ phase' = s.phase
  /\ chatId' = s.chatId
  /\ isPollingFallbackActive' = s.fallback
  /\ rendered' = s.rendered
  /\ failureCountRef' = s.failureCount
  /\ retryTimeoutRef' = s.retryRef
  /\ timers' = s.timers
  /\ conns' = s.conns
  /\ closed' = s.closed
  /\ es' = s.es
  /\ store' = s.store
  /\ fetching' = s.fetching
  /\ inflight' = s.inflight
  /\ chatList' = s.chatList
  /\ log' = s.log
  /\ UNCHANGED sessionVars

Call(s, op) == [s EXCEPT !.log = Append(@, op)]

\* the state at the start of a step that handles a payload
On(payload) == Call(St, payload)

\* ---- browser primitives -------------------------------------------------
ConnIds == 1..MaxConns
NoConn  == [chat |-> NoChat, status |-> "none", fails |-> 0]
Live(s) == { i \in ConnIds : s.conns[i].status # "none" }

\* eventSource.close() on the instance of slot i; slot 0, or a slot that is
\* free by now, stands for an instance that is closed already
Close(s, i) ==
  Call(IF i \in Live(s)
       THEN [s EXCEPT !.conns[i] = NoConn,
                      !.closed = @ \cup {s.conns[i].chat}]
       ELSE s,
       <<"close", i>>)

\* new EventSource(url of chatId)
OpenStream(s) ==
  LET i == CHOOSE k \in ConnIds \ Live(s) :
             \A j \in ConnIds \ Live(s) : k <= j
  IN  Call([s EXCEPT !.conns[i] = [chat |-> s.chatId,
                                  status |-> "connecting", fails |-> 0],
                     !.es = i],
           <<"open", i>>)

\* window.setTimeout: a fresh handle, never one that is pending
FreshTimer(s) == CHOOSE t \in 1..(MaxTimers + 1) : t \notin s.timers

SetTimeout(s) ==
  LET t == FreshTimer(s)
  IN  Call([s EXCEPT !.timers = @ \cup {t}, !.retryRef = t],
           <<"setTimeout", t>>)

\* window.clearTimeout(handle)
ClearTimeout(s, t) ==
  Call([s EXCEPT !.timers = @ \ {t}], <<"clearTimeout", t>>)

\* setIsPollingFallbackActive(v): queued; dropped once the hook is unmounted
SetFallback(s, v) ==
  IF s.phase = "mounted" THEN [s EXCEPT !.fallback = v] ELSE s

\* ---- useChatStream: effects ---------------------------------------------
\* if (retryTimeoutRef.current) { clearTimeout(...); ... = undefined }
ClearRetryTimer(s) ==
  IF s.retryRef # 0
  THEN [ClearTimeout(s, s.retryRef) EXCEPT !.retryRef = 0]
  ELSE s

\* the reset effect without the clearTimeout
ResetEffectKeepsTimer(s) ==
  SetFallback([s EXCEPT !.failureCount = 0], FALSE)

\* effect on [chatId]
ResetEffect(s) ==
  ClearRetryTimer(SetFallback([s EXCEPT !.failureCount = 0], FALSE))

\* an effect on [] whose clean-up leaves the timer pending
UnmountCleanupKeepsTimer(s) == s

\* clean-up of the effect on []
UnmountCleanup(s) == ClearRetryTimer(s)

\* a stream effect without the test of chatId
StreamEffectOpensAlways(s) ==
  IF s.rendered THEN [s EXCEPT !.es = 0] ELSE OpenStream(s)

\* effect on [chatId, queryClient, isPollingFallbackActive]; the body sees
\* the rendered value of the state
StreamEffect(s) ==
  IF s.chatId = NoChat \/ s.rendered
  THEN [s EXCEPT !.es = 0]
  ELSE OpenStream(s)

\* a stream effect that returns no clean-up
StreamCleanupMissing(s) == [s EXCEPT !.es = 0]

\* its clean-up: registered only when the body opened a stream
StreamCleanup(s) ==
  IF s.es # 0 THEN [Close(s, s.es) EXCEPT !.es = 0] ELSE s

\* ---- useChatStream: event handlers of eventSource i ---------------------
\* onopen without the reset of the counter
HandleOpenKeepsCount(s, i) == SetFallback(s, FALSE)

HandleOpen(s, i) ==
  SetFallback([s EXCEPT !.failureCount = 0], FALSE)

\* a callback that leaves the state at true
RetryCallbackKeepsFallback(s) ==
  [s EXCEPT !.retryRef = 0, !.failureCount = 0]

\* body of the setTimeout callback
RetryCallback(s) ==
  SetFallback([s EXCEPT !.retryRef = 0, !.failureCount = 0], FALSE)

\* onerror without eventSource.close()
HandleErrorNoClose(s, i) ==
  LET s1 == [s EXCEPT !.failureCount = @ + 1]
  IN  IF s1.failureCount >= MAX_CONSECUTIVE_FAILURES
      THEN LET s2 == SetFallback(s1, TRUE)
           IN  IF s2.retryRef = 0 THEN SetTimeout(s2) ELSE s2
      ELSE s1

\* onerror without the test of retryTimeoutRef.current
HandleErrorNoGuard(s, i) ==
  LET s1 == [s EXCEPT !.failureCount = @ + 1]
  IN  IF s1.failureCount >= MAX_CONSECUTIVE_FAILURES
      THEN SetTimeout(Close(SetFallback(s1, TRUE), i))
      ELSE s1

HandleError(s, i) ==
  LET s1 == [s EXCEPT !.failureCount = @ + 1]
  IN  IF s1.failureCount >= MAX_CONSECUTIVE_FAILURES
      THEN LET s2 == Close(SetFallback(s1, TRUE), i)
           IN  IF s2.retryRef = 0 THEN SetTimeout(s2) ELSE s2
      ELSE s1

\* ---- message cache --------------------------------------------------------
\* Array.prototype.findIndex on uuid; 0 stands for -1
FindIndex(l, u) ==
  IF HasUuid(l, u)
  THEN CHOOSE i \in 1..Len(l) :
         /\ l[i].uuid = u
         /\ \A j \in 1..(i - 1) : l[j].uuid # u
  ELSE 0

\* an updater that appends whatever the list holds
UpsertStreamAppends(old, m) == Append(old, m)

\* the entry of uuid u in list l
Entry(l, u) == l[FindIndex(l, u)]

\* updater of the MESSAGE case
UpsertStream(old, m) ==
  LET existingIndex == FindIndex(old, m.uuid)
  IN  IF existingIndex > 0
      THEN [old EXCEPT ![existingIndex] = m]
      ELSE Append(old, m)

\* the same iteration without the guard of the finished entry
MergeOneUnguarded(hookChatId, next, message) ==
  IF hookChatId # message.chat_id
  THEN next
  ELSE LET existingIndex == FindIndex(next, message.uuid)
       IN  IF existingIndex > 0
           THEN [next EXCEPT ![existingIndex] = message]
           ELSE Append(next, message)

\* an iteration that replaces the whole list by the response message
MergeOneReplaces(hookChatId, next, message) ==
  IF hookChatId # message.chat_id THEN next ELSE <<message>>

\* an iteration without the test of chat_id
MergeOneAnyChat(hookChatId, next, message) ==
  LET existingIndex == FindIndex(next, message.uuid)
  IN  IF existingIndex > 0
      THEN IF ~next[existingIndex].in_progress /\ message.in_progress
           THEN next
           ELSE [next EXCEPT ![existingIndex] = message]
      ELSE Append(next, message)

\* one iteration of data.forEach in usePostMessage.onSuccess
MergeOne(hookChatId, next, message) ==
  IF hookChatId # message.chat_id
  THEN next
  ELSE LET existingIndex == FindIndex(next, message.uuid)
       IN  IF existingIndex > 0
           THEN IF ~next[existingIndex].in_progress /\ message.in_progress
                THEN next
                ELSE [next EXCEPT ![existingIndex] = message]
           ELSE Append(next, message)

\* updater of usePostMessage.onSuccess
RECURSIVE MergeResponse(_, _, _)
MergeResponse(hookChatId, oldData, data) ==
  IF data = <<>>
  THEN oldData
  ELSE MergeResponse(hookChatId, MergeOne(hookChatId, oldData, Head(data)),
                     Tail(data))

\* What a handler met, for the record of the step: how an incoming message
\* relates to the list it is merged into
Meets(l, m) ==
  IF ~HasUuid(l, m.uuid) THEN "new"
  ELSE LET e == l[FindIndex(l, m.uuid)]
       IN  IF e = m THEN "same"
           ELSE IF ~e.in_progress /\ m.in_progress THEN "stale"
           ELSE "newer"

RECURSIVE MeetsAll(_, _, _)
MeetsAll(hookChatId, l, data) ==
  IF data = <<>>
  THEN <<>>
  ELSE <<IF hookChatId # Head(data).chat_id THEN "foreign"
         ELSE Meets(l, Head(data))>>
       \o MeetsAll(hookChatId, MergeOne(hookChatId, l, Head(data)), Tail(data))

\* and how a snapshot list relates to the list it replaces
MeetsList(old, l) ==
  IF l = old THEN "swap-same"
  ELSE IF \E k \in 1..Len(old) :
            /\ ~old[k].in_progress
            /\ HasUuid(l, old[k].uuid)
            /\ Entry(l, old[k].uuid).in_progress
       THEN "swap-stale"
  ELSE IF \E k \in 1..Len(old) : ~HasUuid(l, old[k].uuid)
       THEN "swap-drop"
  ELSE "swap"

\* stream events as parsed by onmessage: parsed = FALSE when JSON.parse
\* throws; hasData = Array.isArray(data) for a snapshot, truthiness of data
\* for a message
NoMsg == [uuid |-> "-", role |-> "-", chat_id |-> NoChat,
          in_progress |-> FALSE, content |-> ""]

Event(ty, ok, has, l, m) ==
  [type |-> ty, parsed |-> ok, hasData |-> has, list |-> l, msg |-> m]

Events(lists, msgs) ==
  { Event("snapshot", TRUE, TRUE, l, NoMsg) : l \in lists }
  \cup { Event("message", TRUE, TRUE, <<>>, m) : m \in msgs }
  \cup { Event("snapshot", TRUE, FALSE, <<>>, NoMsg),
         Event("message", TRUE, FALSE, <<>>, NoMsg),
         Event("heartbeat", TRUE, FALSE, <<>>, NoMsg),
         Event("other", TRUE, FALSE, <<>>, NoMsg),
         Event("", FALSE, FALSE, <<>>, NoMsg) }

\* a snapshot handler that merges the list entry by entry, keeping a finished
\* entry against an in-progress one
HandleMessageMergesSnapshot(s, key, ev) ==
  IF ev.parsed /\ ev.type = "snapshot" /\ ev.hasData
  THEN [s EXCEPT !.store[key] = MergeResponse(key, @, ev.list)]
  ELSE s

\* an onmessage whose heartbeat and default cases empty the list
HandleMessageClearsOnOther(s, key, ev) ==
      IF ~ev.parsed THEN s
      ELSE IF ev.type = "snapshot"
        THEN IF ev.hasData THEN [s EXCEPT !.store[key] = ev.list] ELSE s
      ELSE IF ev.type = "message"
        THEN IF ev.hasData
             THEN [s EXCEPT !.store[key] = UpsertStream(@, ev.msg)]
             ELSE s
      ELSE [s EXCEPT !.store[key] = <<>>]

\* an onmessage without the try/catch and the tests of the data: what it
\* cannot process is taken as a failure of the stream
HandleMessageFailsOnMalformed(s, key, ev) ==
      IF ~ev.parsed THEN HandleError(s, s.es)
      ELSE IF ev.type = "snapshot"
        THEN IF ev.hasData THEN [s EXCEPT !.store[key] = ev.list]
             ELSE HandleError(s, s.es)
      ELSE IF ev.type = "message"
        THEN IF ev.hasData
             THEN [s EXCEPT !.store[key] = UpsertStream(@, ev.msg)]
             ELSE HandleError(s, s.es)
      ELSE s

\* eventSource.onmessage of a connection whose closure holds chatId = key
HandleMessage(s, key, ev) ==
      IF ~ev.parsed THEN s
      ELSE IF ev.type = "snapshot"
        THEN IF ev.hasData THEN [s EXCEPT !.store[key] = ev.list] ELSE s
      ELSE IF ev.type = "message"
        THEN IF ev.hasData
             THEN [s EXCEPT !.store[key] = UpsertStream(@, ev.msg)]
             ELSE s
      ELSE s

\* ---- useChatSession: data --------------------------------------------------
NEWCHAT_ID == "temp-chat-id"

\* what useParams can give useChatSession: absent (the default applies), a
\* conversation, or the text of `/chat/${undefined}`
SessionIds == {NEWCHAT_ID} \cup ChatIds \cup {"undefined"}

\* the keys of the stored object; '' is what `data?.uuid || ''` gives
DraftKeys == {""} \cup ChatIds \cup {"undefined"}

\* a ChatDraft by its MESSAGE_DRAFT: the object without the field, with '' and
\* with a text; null for the state without a draft, and the missing entry
NullDraft == "null"
Absent == "absent"
EmptyObject == "{}"
Cleared == "{MESSAGE_DRAFT: ''}"
Typed == "{MESSAGE_DRAFT: 'hi'}"
DraftObjects == {EmptyObject, Cleared, Typed}

\* messageDraft: chatDraft?.[MESSAGE_DRAFT] || ''
messageDraft(d) == IF d = Typed THEN "hi" ELSE ""

NoSubmit ==
  [kind |-> "none", chatId |-> NEWCHAT_ID, chatDraft |-> NullDraft,
   isSuggestion |-> FALSE]

\* ---- steps ----------------------------------------------------------------
Init ==
  /\ phase = "init"
  /\ chatId = NoChat
  /\ isPollingFallbackActive = FALSE
  /\ rendered = FALSE
  /\ failureCountRef = 0
  /\ retryTimeoutRef = 0
  /\ timers = {}
  /\ conns = [i \in ConnIds |-> NoConn]
  /\ closed = {}
  /\ es = 0
  /\ store = [k \in Keys |-> <<>>]
  /\ fetching = FALSE
  /\ inflight = {}
  /\ chatList = {}
  /\ sessionChatId = NEWCHAT_ID
  /\ chatDraft = NullDraft
  /\ drafts = [k \in DraftKeys |-> Absent]
  /\ submitting = NoSubmit
  /\ log = <<>>

\* useQuery({enabled: !!chatId}): a new key is fetched at once, and the
\* fetch of the key that lost its observer is aborted through its signal
QueryMount(s) == [s EXCEPT !.fetching = (s.chatId # NoChat)]

CanOpen(s) == s.chatId = NoChat \/ s.rendered \/ Live(s) # ConnIds

\* first render of Chat with route parameter c, and its effects
Mount(c) ==
  /\ phase = "init"
  /\ LET s1 == [St EXCEPT !.phase = "mounted", !.chatId = c,
                          !.rendered = St.fallback]
     IN  Commit(QueryMount(StreamEffect(ResetEffect(s1))))

\* render with a new route parameter c: clean-up of the stream effect, then
\* the reset effect, then the stream effect
Switch(c) ==
  /\ phase = "mounted"
  /\ c # chatId
  /\ LET s1 == [St EXCEPT !.chatId = c, !.rendered = St.fallback]
         s2 == ResetEffect(StreamCleanup(s1))
     IN  /\ CanOpen(s2)
         /\ Commit(QueryMount(StreamEffect(s2)))

\* render caused by a change of isPollingFallbackActive
Render ==
  /\ phase = "mounted"
  /\ isPollingFallbackActive # rendered
  /\ LET s1 == Call([St EXCEPT !.rendered = St.fallback],
                    <<"render", St.fallback>>)
         s2 == StreamCleanup(s1)
     IN  /\ CanOpen(s2)
         /\ Commit(StreamEffect(s2))

Unmount ==
  /\ phase = "mounted"
  /\ LET s1 == [St EXCEPT !.phase = "unmounted", !.fetching = FALSE]
     IN  Commit(StreamCleanup(UnmountCleanup(s1)))

\* the user agent fires `open` on a connection that is not closed
OnOpen(i) ==
  /\ conns[i].status = "connecting"
  /\ Commit(HandleOpen([St EXCEPT !.conns[i].status = "open",
                                  !.conns[i].fails = 0], i))

\* the user agent fires `error` on a connection that is not closed and
\* starts to reconnect
OnError(i) ==
  /\ i \in Live(St)
  /\ failureCountRef < MaxFailures
  /\ conns[i].fails < MaxFailures
  /\ Commit(HandleError([St EXCEPT !.conns[i].status = "connecting",
                                   !.conns[i].fails = @ + 1], i))

\* the user agent fails the connection (a response that is not a 200
\* text/event-stream): it closes the instance, fires `error` once and does
\* not reconnect
FailConnection(i) ==
  /\ i \in Live(St)
  /\ failureCountRef < MaxFailures
  /\ Commit(HandleError([St EXCEPT !.conns[i] = NoConn,
                                   !.closed = @ \cup {conns[i].chat}], i))

OnMessage(i, ev) ==
  /\ conns[i].status = "open"
  /\ LET s1 == HandleMessage(
                 On(<<"onmessage", ev.type,
                      IF ev.type = "message" /\ ev.hasData
                      THEN Meets(store[conns[i].chat], ev.msg)
                      ELSE IF ev.type = "snapshot" /\ ev.hasData
                      THEN MeetsList(store[conns[i].chat], ev.list)
                      ELSE "-">>),
                 conns[i].chat, ev)
     IN  /\ Len(s1.store[conns[i].chat]) <= MaxStoreLen
         /\ Commit(s1)

TimerFire(t) ==
  /\ t \in timers
  /\ Commit(RetryCallback([St EXCEPT !.timers = @ \ {t}]))

\* a poll that does not depend on isPollingFallbackActive
PollRequestAlways ==
  /\ phase = "mounted"
  /\ chatId # NoChat
  /\ ~fetching
  /\ Commit([Call(St, <<"poll", chatId>>) EXCEPT !.fetching = TRUE])

\* refetchInterval of useChatMessages: 5000 while the rendered
\* isPollingFallbackActive is true
PollRequest ==
  /\ phase = "mounted"
  /\ chatId # NoChat
  /\ rendered
  /\ ~fetching
  /\ Commit([Call(St, <<"poll", chatId>>) EXCEPT !.fetching = TRUE])

\* the GET resolves: the list becomes the query data
FetchResponse(l) ==
  /\ fetching
  /\ Commit([St EXCEPT !.fetching = FALSE,
                                          !.store[chatId] = l])

\* handleSubmit on an existing conversation: sendMessage -> POST
Submit ==
  /\ phase = "mounted"
  /\ chatId # NoChat
  /\ chatId \notin inflight
  /\ Cardinality(inflight) < MaxPosts
  /\ Commit([St EXCEPT !.inflight = @ \cup {chatId}])

\* the second setQueryData of onSuccess: the updater maps over the listed
\* conversations and reads data[data.length - 1].chat_id for each of them,
\* which throws a TypeError when data is empty; the list itself keeps its
\* conversations (only updated_at changes)
UpdateChatList(s, data) ==
  IF s.chatList # {} /\ data = <<>>
  THEN Call(s, <<"throw", "TypeError">>)
  ELSE s

\* the POST for conversation c resolves; onSuccess runs with the chatId of
\* the hook's latest render
PostSuccess(c, data) ==
  /\ c \in inflight
  /\ LET s1 == [On(<<"onSuccess", c,
                      MeetsAll(chatId, store[chatId], data)>>) EXCEPT
                   !.inflight = @ \ {c},
                   !.store[chatId] = MergeResponse(chatId, @, data)]
     IN  /\ Len(s1.store[chatId]) <= MaxStoreLen
         /\ Commit(UpdateChatList(s1, data))

\* useChats: the GET of the conversations resolves
ChatsLoaded ==
  /\ chatList = {}
  /\ Commit([St EXCEPT !.chatList = ChatIds])

\* a failed POST counted as a failure of the stream
HandlePostErrorCountsFailure(s, c) ==
  Call([s EXCEPT !.inflight = @ \ {c}, !.failureCount = @ + 1],
       <<"toast", "error">>)

\* the POST rejects: onError has no context to restore (no onMutate) and
\* shows the toast
HandlePostError(s, c) ==
  Call([s EXCEPT !.inflight = @ \ {c}], <<"toast", "error">>)

PostError(c) ==
  /\ c \in inflight
  /\ Commit(HandlePostError(St, c))

\* A channel that keeps dispatching on an instance after close(), as the
\* EventSourceMock of the tests does when a test calls instance.onerror: the
\* handlers of a closed instance of conversation c run
ErrorOnClosed(c) ==
  /\ c \in closed
  /\ failureCountRef < MaxFailures
  /\ Commit(HandleError(Call(St, <<"closed instance", c>>), 0))

OpenOnClosed(c) ==
  /\ c \in closed
  /\ Commit(HandleOpen(Call(St, <<"closed instance", c>>), 0))

\* ---- inputs ---------------------------------------------------------------
\* what the server sends for conversation c in the runs of Spec: the
\* assistant message, in progress or finished
StreamMessages(c) ==
  { m \in MessagesOf(c) :
      /\ m.role = "assistant"
      /\ m.content = (IF m.in_progress THEN "partial" ELSE "whole") }

StreamLists(c) == { <<>> } \cup { <<m>> : m \in StreamMessages(c) }

StreamEvents(c) == Events(StreamLists(c), StreamMessages(c))

StreamResponses(c) == { <<>> } \cup { <<m>> : m \in StreamMessages(c) }

\* and in the runs of SpecStore: every message and every list
AllEvents(c) == Events(ServerLists(c), MessagesOf(c))

AllResponses(c) ==
  { <<m>> : m \in MessagesOf(c) }
  \cup { <<m, n>> : m \in MessagesOf(c), n \in MessagesOf(c) }

\* useChatStream
NextHook ==
  \/ \E c \in Keys : Mount(c)
  \/ \E c \in Keys : Switch(c)
  \/ Render
  \/ Unmount
  \/ \E i \in ConnIds : OnOpen(i)
  \/ \E i \in ConnIds : OnError(i)
  \/ \E i \in ConnIds : FailConnection(i)
  \/ \E i \in ConnIds : \E ev \in StreamEvents(conns[i].chat) : OnMessage(i, ev)
  \/ \E t \in timers : TimerFire(t)

\* useChatMessages and usePostMessage of the page
NextPage ==
  \/ PollRequest
  \/ ChatsLoaded
  \/ \E l \in StreamLists(chatId) : FetchResponse(l)
  \/ Submit
  \/ \E c \in inflight : \E data \in StreamResponses(c) : PostSuccess(c, data)
  \/ \E c \in inflight : PostError(c)

Next == NextHook \/ NextPage

\* The chat page in the browser: nothing is dispatched on a closed
\* EventSource and a cleared timer never fires.
Spec == Init /\ [][Next]_vars

\* useChatStream rendered alone on a channel that dispatches on closed
\* instances too, as in the hook's own tests
NextDouble ==
  \/ NextHook
  \/ \E c \in closed : ErrorOnClosed(c)
  \/ \E c \in closed : OpenOnClosed(c)

SpecDouble == Init /\ [][NextDouble]_vars

\* The chat page on a stream that never fails, with every message and every
\* list the server can send
NextStore ==
  \/ \E c \in Keys : Mount(c)
  \/ \E c \in Keys : Switch(c)
  \/ Unmount
  \/ \E i \in ConnIds : OnOpen(i)
  \/ \E i \in ConnIds : \E ev \in AllEvents(conns[i].chat) : OnMessage(i, ev)
  \/ \E l \in ServerLists(chatId) : FetchResponse(l)
  \/ Submit
  \/ \E c \in inflight : \E data \in AllResponses(c) : PostSuccess(c, data)
  \/ \E c \in inflight : PostError(c)

SpecStore == Init /\ [][NextStore]_vars

\* The cool-down timer (30 s) elapses; a render that a handler has queued is
\* committed long before
Elapse(t) ==
  /\ isPollingFallbackActive = rendered
  /\ TimerFire(t)

NextLive ==
  \/ \E c \in Keys : Mount(c)
  \/ \E c \in Keys : Switch(c)
  \/ Render
  \/ Unmount
  \/ \E i \in ConnIds : OnOpen(i)
  \/ \E i \in ConnIds : OnError(i)
  \/ \E i \in ConnIds : FailConnection(i)
  \/ \E i \in ConnIds : \E ev \in StreamEvents(conns[i].chat) : OnMessage(i, ev)
  \/ \E t \in timers : Elapse(t)
  \/ NextPage

\* The chat page in the browser, where a queued render is committed, a
\* pending timer elapses and the user agent reports the outcome of every
\* connection attempt
SpecLive ==
  /\ Init
  /\ [][NextLive]_vars
  /\ WF_vars(Render)
  /\ WF_vars(\E t \in timers : Elapse(t))
  /\ WF_vars(\E i \in ConnIds : OnOpen(i) \/ OnError(i) \/ FailConnection(i))

\* Two assistant messages of c1, each in progress or finished, and the lists,
\* events and responses of a server that never reports more than one of
\* them in progress at once
FlightMessages ==
  { Msg(u, p, IF p THEN "partial" ELSE "whole") : u \in {"a1", "a2"},
                                                  p \in BOOLEAN }

InProgress(l) ==
  { k \in 1..Len(l) : l[k].role = "assistant" /\ l[k].in_progress }

FlightLists ==
  { l \in ListsOver(FlightMessages, MaxStoreLen) :
      NoDup(l) /\ Cardinality(InProgress(l)) <= 1 }

FlightEvents(c) ==
  IF c = "c1" THEN Events(FlightLists, FlightMessages)
  ELSE Events({ <<>> }, {})

\* The chat page on a stream that never fails, with the two assistant
\* messages
NextFlight ==
  \/ \E c \in Keys : Mount(c)
  \/ \E c \in Keys : Switch(c)
  \/ Unmount
  \/ \E i \in ConnIds : OnOpen(i)
  \/ \E i \in ConnIds : \E ev \in FlightEvents(conns[i].chat) : OnMessage(i, ev)
  \/ \E l \in (IF chatId = "c1" THEN FlightLists ELSE { <<>> }) : FetchResponse(l)
  \/ Submit
  \/ \E c \in inflight : \E m \in FlightMessages : PostSuccess(c, <<m>>)
  \/ \E c \in inflight : PostError(c)

SpecFlight == Init /\ [][NextFlight]_vars

\* ---- useChatSession ----------------------------------------------------------
\* the session's mutable state as one record
Ss ==
  [chatId |-> sessionChatId, chatDraft |-> chatDraft, drafts |-> drafts,
   submitting |-> submitting, log |-> <<>>]

CommitSession(s) ==
  /\ sessionChatId' = s.chatId
  /\ chatDraft' = s.chatDraft
  /\ drafts' = s.drafts
  /\ submitting' = s.submitting
  /\ log' = s.log
  /\ UNCHANGED <<phase, chatId, isPollingFallbackActive, rendered,
                 failureCountRef, retryTimeoutRef, timers, conns, closed, es,
                 store, fetching, inflight, chatList>>

\* loadDraft of the render with the session's chatId: setChatDraft of the
\* stored entry, or of null; nothing for the new chat
loadDraft(s) ==
  IF s.chatId # NEWCHAT_ID
  THEN [s EXCEPT !.chatDraft = IF s.drafts[s.chatId] = Absent
                               THEN NullDraft ELSE s.drafts[s.chatId]]
  ELSE s

\* draft[MESSAGE_DRAFT] = message on a copy of the draft
WithMessage(d, message) == IF message = "" THEN Cleared ELSE Typed

\* updateChatInStorage(MESSAGE_DRAFT, message) of the render whose chatId and
\* chatDraft are cid and cd; the 'chatDraftUpdated' event it dispatches runs
\* loadDraft of the mounted render
updateChatInStorage(s, cid, cd, message) ==
  LET draft == WithMessage(IF cid = NEWCHAT_ID THEN cd ELSE s.drafts[cid],
                           message)
      s1 == [s EXCEPT !.chatDraft = draft]
      s2 == IF cid # NEWCHAT_ID
            THEN Call([s1 EXCEPT !.drafts[cid] = draft],
                      <<"setStorageItem", cid>>)
            ELSE s1
  IN  loadDraft(s2)

\* setUpNewChatDraft(newChatId) of the render whose chatId and chatDraft are
\* cid and cd; the assignment to chatDraft[MESSAGE_DRAFT] changes the object
\* that the state holds as well
setUpNewChatDraft(s, cid, cd, newChatId) ==
  IF cid # NEWCHAT_ID
  THEN s
  ELSE LET d == IF cd = Typed THEN Cleared ELSE cd
       IN  Call([s EXCEPT !.chatDraft = IF @ = cd THEN d ELSE @,
                          !.drafts[newChatId] =
                            IF d = NullDraft THEN EmptyObject ELSE d],
                <<"setStorageItem", newChatId>>)

\* navigate(`/chat/${uuid}`) and the render it causes, with its loadDraft
navigate(s, uuid) ==
  loadDraft(Call([s EXCEPT !.chatId = uuid], <<"navigate", uuid>>))

\* the textarea's onChange: setMessageDraft(message); the textarea is disabled
\* while a conversation is being created
TypeDraft(message) ==
  /\ submitting.kind # "start"
  /\ sessionChatId # "undefined"
  /\ CommitSession(updateChatInStorage(Ss, sessionChatId, chatDraft, message))

\* the user opens a conversation, or the new chat, from the side bar
OpenChat(c) ==
  /\ c \in {NEWCHAT_ID} \cup ChatIds
  /\ c # sessionChatId
  /\ CommitSession(loadDraft([Ss EXCEPT !.chatId = c]))

\* messageToSend of handleSubmit
MessageToSend(isSuggestion, customMessage) ==
  IF isSuggestion THEN "Suggest questions to ask about"
  ELSE IF customMessage # "" THEN customMessage
  ELSE messageDraft(chatDraft)

\* handleSubmit(isSuggestion, customMessage, ...) up to its await. The page
\* passes messageDraft, or the question of a suggestion card, as
\* customMessage, and isSuggestion only while messageDraft is empty
HandleSubmit(isSuggestion, customMessage) ==
  /\ submitting = NoSubmit
  /\ customMessage \in {messageDraft(chatDraft), "question"}
  /\ isSuggestion => (messageDraft(chatDraft) = "" /\ customMessage = "")
  /\ LET messageToSend == MessageToSend(isSuggestion, customMessage)
         s == Call(Ss, <<"handleSubmit", isSuggestion, messageToSend>>)
         kind == IF sessionChatId # NEWCHAT_ID THEN "send" ELSE "start"
     IN  IF messageToSend = ""
         THEN CommitSession(s)
         ELSE CommitSession(
                Call([s EXCEPT !.submitting =
                        [kind |-> kind, chatId |-> sessionChatId,
                         chatDraft |-> chatDraft,
                         isSuggestion |-> isSuggestion]],
                     <<kind, sessionChatId>>))

\* a handleSubmit without the finally block
FinallyKeepsDraft(s, call) == s

\* the finally block of the call that awaited: setMessageDraft('') of the
\* render that made the call, whose chatDraft object setUpNewChatDraft has
\* changed by then
Finally(s, call) ==
  IF ~call.isSuggestion
  THEN updateChatInStorage(s, call.chatId,
                           IF call.chatDraft = Typed /\ call.kind = "start"
                           THEN Cleared ELSE call.chatDraft,
                           "")
  ELSE s

\* sendMessage settles, resolved or rejected
SendSettled(ok) ==
  /\ submitting.kind = "send"
  /\ LET s == Call([Ss EXCEPT !.submitting = NoSubmit],
                   <<"settled", "send", ok>>)
     IN  CommitSession(Finally(s, submitting))

\* startChat settles: onSettled(data) with data the new conversation, or
\* undefined when the request failed; then the finally block
OnSettled(s, call, uuid) ==
  navigate(setUpNewChatDraft(s, call.chatId, call.chatDraft,
                             IF uuid = "undefined" THEN "" ELSE uuid),
           uuid)

CreateSettled(uuid) ==
  /\ submitting.kind = "start"
  /\ LET s == Call([Ss EXCEPT !.submitting = NoSubmit],
                   <<"settled", "start", uuid # "undefined">>)
     IN  CommitSession(Finally(OnSettled(s, submitting, uuid), submitting))

NextSession ==
  \/ \E message \in {"", "hi"} : TypeDraft(message)
  \/ \E c \in SessionIds : OpenChat(c)
  \/ \E isSuggestion \in BOOLEAN :
       \E customMessage \in {"", "hi", "question"} :
         HandleSubmit(isSuggestion, customMessage)
  \/ \E ok \in BOOLEAN : SendSettled(ok)
  \/ \E uuid \in ChatIds \cup {"undefined"} : CreateSettled(uuid)

\* useChatSession of the prompt input, alone
SpecSession == Init /\ [][NextSession]_vars

\* ---- properties --------------------------------------------------------------
\* what the last step handled: "" when it handled no payload
Handled(l) == IF l # <<>> /\ Len(l[1]) = 3 THEN l[1][1] ELSE ""

\* C1: an SSE `message` event that is still in progress and whose uuid is
\* stored as finished leaves the stored list as it was.
C1_StreamNoRegression ==
  [][ (Handled(log') = "onmessage" /\ log'[1][3] = "stale") => store' = store ]_vars

\* C2: when onSuccess merges a response, a response message in progress whose
\* uuid is stored as finished leaves that entry as it was, and in every other
\* case the stored entry of that uuid becomes the response message.
C2_SubmitMerge ==
  [][ Handled(log') = "onSuccess" =>
        \A c \in inflight : \A data \in AllResponses(c) :
          (/\ NoDup(data)
           /\ log'[1] = <<"onSuccess", c, MeetsAll(chatId, store[chatId], data)>>
           /\ PostSuccess(c, data)) =>
            \A j \in 1..Len(data) :
              HasUuid(store[chatId], data[j].uuid) =>
                LET e == Entry(store[chatId], data[j].uuid)
                IN  Entry(store'[chatId], data[j].uuid) =
                      IF ~e.in_progress /\ data[j].in_progress
                      THEN e ELSE data[j] ]_vars

\* a response in progress has met its finished entry, which is still there
C2_Witness ==
  /\ Handled(log) = "onSuccess"
  /\ log[1][3] = <<"stale">>
  /\ \E k \in 1..Len(store[chatId]) : ~store[chatId][k].in_progress

LiveIds == { i \in ConnIds : conns[i].status # "none" }

\* positions of the calls of kind op in the record l of a step
CallsOf(l, op) == { k \in 1..Len(l) : l[k][1] = op }

\* the step is the error event that is the third in a row on connection i
ThirdError(i) ==
  /\ conns[i].fails = MAX_CONSECUTIVE_FAILURES - 1
  /\ OnError(i) \/ FailConnection(i)

\* C3: isPollingFallbackActive becomes true exactly at the third error event
\* in a row (no open event in between) on the connection of the rendered
\* conversation, and an open event sets the failure counter to 0.
C3_TripAtThree ==
  [][ /\ (~isPollingFallbackActive /\ isPollingFallbackActive')
           <=> (\E i \in ConnIds : conns[i].chat = chatId /\ ThirdError(i))
      /\ \A i \in ConnIds : OnOpen(i) => failureCountRef' = 0 ]_vars

\* the fallback has just tripped
C3_Witness ==
  /\ isPollingFallbackActive
  /\ ~rendered
  /\ failureCountRef = MAX_CONSECUTIVE_FAILURES
  /\ CallsOf(log, "close") # {} /\ CallsOf(log, "setTimeout") # {}

\* C4: the third error event in a row closes the connection, in the same
\* step, and a fallback poll request is only issued while no connection is
\* open.
C4_CloseBeforePoll ==
  [][ /\ \A i \in ConnIds :
           ThirdError(i) => (conns'[i].status = "none" /\ CallsOf(log', "poll") = {})
      /\ CallsOf(log', "poll") # {} =>
           \A i \in ConnIds : conns'[i].status = "none" ]_vars

\* a poll request of the fallback that the third error started
C4_Witness ==
  /\ CallsOf(log, "poll") # {}
  /\ rendered /\ isPollingFallbackActive
  /\ retryTimeoutRef # 0
  /\ chatId \in closed

\* C5: while isPollingFallbackActive is true (queued or rendered) no stream
\* connection is open.
C5_FallbackHasNoStream ==
  (isPollingFallbackActive \/ rendered) => LiveIds = {}

C5_Witness ==
  /\ phase = "mounted"
  /\ isPollingFallbackActive
  /\ chatId \in closed

\* C6: at most one cool-down timer is pending, and once the failures in a
\* row have reached the threshold on a mounted hook it is exactly one, the
\* one retryTimeoutRef holds, however many more error events follow.
C6_OneTimer ==
  /\ Cardinality(timers) <= 1
  /\ (phase = "mounted" /\ failureCountRef >= MAX_CONSECUTIVE_FAILURES)
       => (retryTimeoutRef # 0 /\ timers = {retryTimeoutRef})

\* more error events than the threshold, one timer
C6_Witness ==
  /\ phase = "mounted"
  /\ failureCountRef > MAX_CONSECUTIVE_FAILURES
  /\ Cardinality(timers) = 1

\* C7: once the fallback has tripped, a further error event on the closed
\* connection of that conversation keeps isPollingFallbackActive true and
\* keeps the pending timer, the connections and the message lists as they
\* are; it sets no timer, clears none and opens no connection.
C7_FurtherErrorsChangeNothing ==
  [][ \A c \in closed :
        (/\ phase = "mounted"
         /\ isPollingFallbackActive
         /\ c = chatId
         /\ ErrorOnClosed(c))
        => /\ isPollingFallbackActive'
           /\ Cardinality(timers') = 1
           /\ UNCHANGED <<timers, retryTimeoutRef, conns, closed, es, store>>
           /\ CallsOf(log', "setTimeout") = {}
           /\ CallsOf(log', "clearTimeout") = {}
           /\ CallsOf(log', "open") = {} ]_vars

\* an error event on the closed connection, after the threshold
C7_Witness ==
  /\ phase = "mounted"
  /\ isPollingFallbackActive
  /\ failureCountRef > MAX_CONSECUTIVE_FAILURES
  /\ CallsOf(log, "closed instance") # {}
  /\ log[1][2] = chatId

\* C8: a render with a new conversation id while the stream of the old one
\* is open closes that connection exactly once, before the connection of
\* the new id is opened; at most one connection is open at any time, and it
\* is the one of the rendered conversation.
C8_SwitchClosesThenOpens ==
  /\ [][ \A c \in Keys :
           (es \in LiveIds /\ ~isPollingFallbackActive /\ Switch(c))
           => /\ Cardinality({ k \in CallsOf(log', "close") : log'[k][2] = es }) = 1
              /\ c # NoChat =>
                   /\ CallsOf(log', "open") # {}
                   /\ \A k \in CallsOf(log', "close") :
                        \A j \in CallsOf(log', "open") : k < j ]_vars
  /\ [](/\ Cardinality(LiveIds) <= 1
        /\ \A i \in LiveIds : i = es /\ conns[i].chat = chatId)

\* the hook has moved from a streaming conversation to another one
C8_Witness ==
  /\ phase = "mounted"
  /\ chatId \in ChatIds
  /\ closed = ChatIds \ {chatId}
  /\ CallsOf(log, "close") # {} /\ CallsOf(log, "open") # {}

\* C9: an error or open event of a closed connection of another conversation
\* than the rendered one leaves the failure counter, isPollingFallbackActive
\* and the timers as they are.
C9_OldConnectionIsolated ==
  [][ \A c \in closed :
        (c # chatId /\ (ErrorOnClosed(c) \/ OpenOnClosed(c)))
        => UNCHANGED <<failureCountRef, isPollingFallbackActive, timers>> ]_vars

\* C10: a render with a new conversation id leaves no connection of the old
\* id open, no timer pending, the failure counter at 0 and
\* isPollingFallbackActive false, and every close and clearTimeout of the
\* step comes before its open; whenever a connection is opened, nothing of
\* an earlier conversation is left.
C10_LeakFreeSwitch ==
  [][ /\ \A c \in Keys :
           Switch(c)
           => /\ \A i \in ConnIds :
                   conns'[i].status # "none" => (i = es' /\ conns'[i].chat = c)
              /\ timers' = {} /\ retryTimeoutRef' = 0
              /\ failureCountRef' = 0
              /\ ~isPollingFallbackActive'
      /\ \A j \in CallsOf(log', "open") :
           /\ \A k \in CallsOf(log', "close") \cup CallsOf(log', "clearTimeout") :
                k < j
           /\ timers' = {} /\ retryTimeoutRef' = 0
           /\ failureCountRef' = 0
           /\ ~isPollingFallbackActive'
           /\ \A i \in ConnIds : conns'[i].status # "none" => i = es' ]_vars

\* the hook has left a conversation in fallback, cancelling its timer
C10_Witness ==
  /\ phase = "mounted"
  /\ CallsOf(log, "clearTimeout") # {}
  /\ closed # {} /\ chatId \notin closed
  /\ timers = {}

\* C11: in a render with a new conversation id, and in an unmount, every
\* eventSource.close() comes before every clearTimeout of the cool-down
\* timer, and no fallback poll is requested in that step.
C11_CloseThenClearTimer ==
  [][ (Unmount \/ \E c \in Keys : Switch(c))
      => /\ \A k \in CallsOf(log', "close") :
              \A j \in CallsOf(log', "clearTimeout") : k < j
         /\ CallsOf(log', "poll") = {} ]_vars

\* C12: a cool-down timer callback that runs after the hook is unmounted, or
\* while the rendered conversation is one none of whose connections was ever
\* closed (so the timer was set for another conversation), leaves the
\* failure counter, isPollingFallbackActive and the connections as they are.
C12_StaleTimerNoOp ==
  [][ \A t \in timers :
        (/\ phase = "unmounted" \/ chatId \notin closed
         /\ TimerFire(t))
        => UNCHANGED <<failureCountRef, isPollingFallbackActive, conns, es>> ]_vars

\* C13: an unmount, from whatever state, leaves no stream connection that is
\* not closed and no pending timer, and it stays so once unmounted.
C13_UnmountSafety ==
  /\ [][ Unmount => (LiveIds' = {} /\ timers' = {} /\ retryTimeoutRef' = 0) ]_vars
  /\ [](phase = "unmounted" => (LiveIds = {} /\ timers = {}))

\* unmounted while the cool-down timer was pending
C13_Witness ==
  /\ phase = "unmounted"
  /\ CallsOf(log, "clearTimeout") # {}
  /\ chatId \in closed

\* number of entries of list l with uuid u
CountUuid(l, u) == Cardinality({ k \in 1..Len(l) : l[k].uuid = u })

\* C14: for every stored list and every message, the MESSAGE updater applied
\* twice gives the list it gives applied once, with one entry of that uuid;
\* the same for the onSuccess updater and every response; and a `message`
\* event that meets its own copy leaves the lists as they are.
C14_IdempotentMerge ==
  /\ [](\A c \in ChatIds :
          /\ \A m \in MessagesOf(c) :
               LET once == UpsertStream(store[c], m)
               IN  /\ UpsertStream(once, m) = once
                   /\ CountUuid(once, m.uuid) = 1
          /\ \A data \in AllResponses(c) :
               LET once == MergeResponse(c, store[c], data)
               IN  /\ MergeResponse(c, once, data) = once
                   /\ \A j \in 1..Len(data) : CountUuid(once, data[j].uuid) = 1)
  /\ [][ (Handled(log') = "onmessage" /\ log'[1][3] = "same")
         => store' = store ]_vars

\* the same `message` event has been handled a second time
C14_Witness ==
  /\ Handled(log) = "onmessage"
  /\ log[1][2] = "message"
  /\ log[1][3] = "same"
  /\ \E c \in ChatIds : Len(store[c]) > 1

\* C15: when a `message` event arrives while the POST of its conversation is
\* in flight, and the response carries a message of the same uuid that is
\* equal to the event's or differs from it in in_progress, merging the
\* response after the event gives the list that handling the event after
\* the merge of the response gives.
C15_ArrivalOrderIndependent ==
  [][ \A i \in ConnIds : \A ms \in MessagesOf(conns[i].chat) :
        (/\ conns[i].chat = chatId
         /\ chatId \in inflight
         /\ OnMessage(i, Event("message", TRUE, TRUE, <<>>, ms)))
        => \A mr \in MessagesOf(chatId) :
             (mr.uuid = ms.uuid /\ (mr = ms \/ mr.in_progress # ms.in_progress))
             => MergeResponse(chatId, store'[chatId], <<mr>>)
                  = UpsertStream(MergeResponse(chatId, store[chatId], <<mr>>), ms)
    ]_vars

\* C16: a `message` event whose uuid is not in the list appends its message
\* as the last entry; one whose uuid is in the list keeps the length and
\* every other entry, and puts its message at the position of that uuid
\* (for an in-progress message that meets a finished entry, see C1); the
\* lists of the other conversations stay as they are.
C16_UpsertPlacement ==
  [][ \A i \in ConnIds : \A m \in MessagesOf(conns[i].chat) :
        (/\ Handled(log') = "onmessage"
         /\ log'[1][2] = "message"
         /\ OnMessage(i, Event("message", TRUE, TRUE, <<>>, m)))
        => LET c == conns[i].chat
               old == store[c]
               new == store'[c]
               k == FindIndex(old, m.uuid)
           IN  /\ \A d \in Keys \ {c} : store'[d] = store[d]
               /\ IF k = 0
                  THEN /\ Len(new) = Len(old) + 1
                       /\ new[Len(new)] = m
                       /\ \A j \in 1..Len(old) : new[j] = old[j]
                  ELSE /\ Len(new) = Len(old)
                       /\ \A j \in 1..Len(old) : j # k => new[j] = old[j]
                       /\ new[k].uuid = m.uuid
                       /\ Meets(old, m) # "stale" => new[k] = m ]_vars

\* an entry of a list of two, the assistant's message first, has been
\* updated in place
C16_Witness ==
  /\ Handled(log) = "onmessage"
  /\ log[1][3] = "newer"
  /\ \E c \in ChatIds :
       /\ Len(store[c]) = 2
       /\ store[c][1].uuid = "a1"
       /\ store[c][1].in_progress

\* C17: after a `snapshot` event that carries a list, the list of the
\* connection's conversation is that list, entry by entry, whatever it was
\* (a finished entry is replaced by an in-progress one, an entry the snapshot
\* lacks is dropped), and the other lists stay as they are.
C17_SnapshotSwap ==
  [][ (Handled(log') = "onmessage" /\ log'[1][2] = "snapshot")
      => \A i \in ConnIds : \A l \in ServerLists(conns[i].chat) :
           (/\ log'[1][3] = MeetsList(store[conns[i].chat], l)
            /\ OnMessage(i, Event("snapshot", TRUE, TRUE, l, NoMsg)))
           => /\ store'[conns[i].chat] = l
              /\ \A d \in Keys \ {conns[i].chat} : store'[d] = store[d] ]_vars

\* a snapshot has replaced a finished entry by its in-progress version
C17_Witness ==
  /\ Handled(log) = "onmessage"
  /\ log[1][2] = "snapshot"
  /\ log[1][3] = "swap-stale"
  /\ \E c \in ChatIds : \E k \in 1..Len(store[c]) : store[c][k].in_progress

\* C18: a `heartbeat` event, and an event of a type the handler does not
\* know, leave the message lists, the failure counter,
\* isPollingFallbackActive, the timer and the connections as they are.
C18_HeartbeatNoOp ==
  [][ (Handled(log') = "onmessage" /\ log'[1][2] \in {"heartbeat", "other"})
      => UNCHANGED <<store, failureCountRef, isPollingFallbackActive, rendered,
                     retryTimeoutRef, timers, conns, closed, es, fetching,
                     inflight, phase, chatId>> ]_vars

\* a heartbeat has been handled on the stream of a conversation with messages
C18_Witness ==
  /\ Handled(log) = "onmessage"
  /\ log[1][2] = "heartbeat"
  /\ store[chatId] # <<>>
  /\ es \in LiveIds /\ conns[es].status = "open"

\* an event of an unknown type has been handled
C18_WitnessOther ==
  /\ Handled(log) = "onmessage"
  /\ log[1][2] = "other"
  /\ store[chatId] # <<>>

\* the last step handled a stream event that is dropped: data that does not
\* parse, a snapshot whose data is not an array, a message without data
Malformed(l) ==
  /\ Handled(l) = "onmessage"
  /\ l[1][2] \in {"", "snapshot", "message"}
  /\ l[1][3] = "-"

\* C19: a stream event whose data does not parse, a `snapshot` whose data is
\* not an array and a `message` without data leave the message lists, the
\* failure counter, isPollingFallbackActive, the timer and the connections
\* as they are; the connection stays open, and an open connection takes
\* every event of its conversation, whatever it has handled before.
C19_MalformedDropped ==
  /\ [][ Malformed(log')
         => /\ UNCHANGED <<store, failureCountRef, isPollingFallbackActive,
                           rendered, retryTimeoutRef, timers, conns, closed,
                           es, fetching, inflight, phase, chatId>>
            /\ \E i \in ConnIds : conns'[i].status = "open" ]_vars
  /\ [](\A i \in ConnIds :
          conns[i].status = "open"
          => \A ev \in StreamEvents(conns[i].chat) : ENABLED OnMessage(i, ev))

\* data that does not parse has been dropped on an open stream of a
\* conversation with messages
C19_Witness ==
  /\ Malformed(log)
  /\ log[1][2] = ""
  /\ store[chatId] # <<>>
  /\ es \in LiveIds /\ conns[es].status = "open"
  /\ failureCountRef = 0 /\ ~isPollingFallbackActive

\* C20: right after handleSubmit on an existing conversation, before the
\* POST settles, the list of that conversation holds a user message that it
\* did not hold before.
C20_OptimisticInsert ==
  [][ Submit
      => /\ chatId \in inflight'
         /\ \E k \in 1..Len(store'[chatId]) :
              /\ store'[chatId][k].role = "user"
              /\ ~HasUuid(store[chatId], store'[chatId][k].uuid) ]_vars

\* C21: the list that a failure of the POST leaves is the one captured at
\* handleSubmit, whatever stream events are handled in between: a stream
\* event handled while the POST of the rendered conversation is in flight
\* does not change the list that onError leaves for that conversation.
C21_RollbackOnFailure ==
  [][ (Handled(log') = "onmessage" /\ chatId \in inflight)
      => HandlePostError(St', chatId).store[chatId]
           = HandlePostError(St, chatId).store[chatId] ]_vars

\* the entries of list l whose uuid does not occur in data, in order
Others(l, data) == SelectSeq(l, LAMBDA e : ~HasUuid(data, e.uuid))

\* lists long enough to have an order to keep: a second assistant message
WideMessages ==
  Messages \cup { Msg("a2", p, t) : p \in BOOLEAN, t \in Contents }

WideLists == { l \in ListsOver(WideMessages, 3) : NoDup(l) }

\* the onSuccess updater keeps, in order, what the response does not name,
\* for every list of up to three messages and every response of one message
MergeKeepsOthers ==
  \A l \in WideLists : \A m \in WideMessages :
    Others(MergeResponse("c1", l, <<m>>), <<m>>) = Others(l, <<m>>)

\* C22: when onSuccess merges a response, the entries of the list whose uuid
\* the response does not name are all still there, unchanged and in the same
\* order, and the lists of the other conversations stay as they are.
C22_SuccessKeepsOthers ==
  /\ [](MergeKeepsOthers)
  /\ [][ Handled(log') = "onSuccess" =>
           \A c \in inflight : \A data \in AllResponses(c) :
             (/\ log'[1] = <<"onSuccess", c, MeetsAll(chatId, store[chatId], data)>>
              /\ PostSuccess(c, data))
             => /\ Others(store'[chatId], data) = Others(store[chatId], data)
                /\ \A d \in Keys \ {chatId} : store'[d] = store[d] ]_vars

\* a response of one message has been appended to a list that held another
C22_Witness ==
  /\ Handled(log) = "onSuccess"
  /\ log[1][3] = <<"new">>
  /\ Len(store[chatId]) = 2

\* C23: whenever isPollingFallbackActive is true on a mounted hook, then, unless
\* the hook is unmounted or rendered with another conversation, a state
\* follows in which a render has opened a new connection of that
\* conversation with the failure counter at 0, isPollingFallbackActive false
\* and no timer pending; this holds in every fallback episode of a run.
C23_RetryAfterCoolDown ==
  \A c \in ChatIds :
    (phase = "mounted" /\ chatId = c /\ isPollingFallbackActive)
    ~> \/ phase = "unmounted"
       \/ chatId # c
       \/ /\ CallsOf(log, "render") # {}
          /\ CallsOf(log, "open") # {}
          /\ es \in LiveIds /\ conns[es].chat = c
          /\ failureCountRef = 0
          /\ ~isPollingFallbackActive
          /\ timers = {}

\* the render after the cool-down has opened a new connection of the
\* conversation whose stream had been given up
C23_Witness ==
  /\ phase = "mounted"
  /\ CallsOf(log, "render") # {}
  /\ log[1][2] = FALSE
  /\ CallsOf(log, "open") # {}
  /\ closed = {chatId}
  /\ failureCountRef = 0 /\ ~isPollingFallbackActive /\ timers = {}

\* the fallback poll of useChatMessages is on: refetchInterval is 5000 for the
\* rendered conversation
PollingOn == phase = "mounted" /\ chatId # NoChat /\ rendered

\* C24: when the render after the cool-down has opened the new connection
\* of the conversation (the only one whose stream was ever closed), which
\* has not reported open yet, the fallback poll is still on.
C24_PollingCoversRetry ==
  ( /\ CallsOf(log, "render") # {}
    /\ log[1][2] = FALSE
    /\ CallsOf(log, "open") # {}
    /\ closed = {chatId}
    /\ es \in LiveIds /\ conns[es].status = "connecting" )
  => PollingOn

\* C25: whenever the connection of the rendered conversation has reported an
\* error and no open event since, then, unless the hook is unmounted or
\* rendered with another conversation, isPollingFallbackActive becomes true
\* or the connection reports open.
C25_DegradesToPolling ==
  \A c \in ChatIds :
    (phase = "mounted" /\ chatId = c /\ failureCountRef > 0)
    ~> \/ phase = "unmounted"
       \/ chatId # c
       \/ isPollingFallbackActive
       \/ failureCountRef = 0

\* C26: the list of a conversation never holds more than one assistant
\* message in progress, whatever snapshots, messages, poll results and
\* responses arrive, none of which holds more than one itself.
C26_SingleInFlight ==
  \A c \in ChatIds : Cardinality(InProgress(store[c])) <= 1

\* C27: while the hook is rendered without a conversation id no connection is
\* open and no step that leaves it without an id opens one; a render that
\* gives it an id, with isPollingFallbackActive rendered false, opens one
\* connection, for that id.
C27_IdleHasNoConnection ==
  /\ []((phase = "mounted" /\ chatId = NoChat) => (LiveIds = {} /\ es = 0))
  /\ [][ /\ chatId' = NoChat => CallsOf(log', "open") = {}
         /\ \A c \in ChatIds :
              (chatId = NoChat /\ (Mount(c) \/ Switch(c)) /\ ~rendered')
              => /\ Cardinality(CallsOf(log', "open")) = 1
                 /\ LiveIds' = {es'}
                 /\ conns'[es'].chat = c ]_vars

\* the hook has gone from a conversation to none and closed its stream
C27_Witness ==
  /\ phase = "mounted"
  /\ chatId = NoChat
  /\ CallsOf(log, "close") # {}
  /\ closed # {}
  /\ LiveIds = {}

\* C28: the list of a conversation only ever holds messages of that
\* conversation; a stream event changes no list but the one of its
\* connection's conversation, and a response changes no list but the one of
\* the hook's conversation.
C28_StoreIsolation ==
  /\ [](\A c \in Keys : \A k \in 1..Len(store[c]) : store[c][k].chat_id = c)
  /\ [][ /\ Handled(log') = "onmessage"
              => \A d \in Keys : store'[d] # store[d]
                   => \E i \in LiveIds : conns[i].status = "open" /\ conns[i].chat = d
         /\ Handled(log') = "onSuccess"
              => \A d \in Keys : store'[d] # store[d] => d = chatId ]_vars

\* the response of a POST of c1 has arrived at the hook of another
\* conversation and has been left out
C28_Witness ==
  /\ Handled(log) = "onSuccess"
  /\ log[1][2] # chatId
  /\ log[1][3][1] = "foreign"
  /\ chatId \in ChatIds
  /\ store[chatId] = <<>>
  /\ store[log[1][2]] # <<>>

\* C29: handling a response of a POST, the empty one included, throws
\* nothing.
C29_NoThrow ==
  [][ Handled(log') = "onSuccess" => CallsOf(log', "throw") = {} ]_vars

\* C30: a fallback poll of the message list can be requested exactly while
\* the hook is rendered with a conversation id and with
\* isPollingFallbackActive true (and no GET is in flight); every poll
\* request is for the rendered conversation, and while a stream connection
\* is not closed none is requested.
C30_PollingIffFallback ==
  /\ []((ENABLED PollRequest)
          <=> (phase = "mounted" /\ chatId # NoChat /\ rendered /\ ~fetching))
  /\ [](LiveIds # {} => ~ENABLED PollRequest)
  /\ [][ \A k \in CallsOf(log', "poll") :
           /\ rendered /\ rendered'
           /\ chatId # NoChat
           /\ log'[k][2] = chatId
           /\ LiveIds = {} ]_vars

\* a poll has been requested while the cool-down timer is pending
C30_Witness ==
  /\ CallsOf(log, "poll") # {}
  /\ fetching
  /\ rendered
  /\ timers # {}
  /\ LiveIds = {}

\* the variables of useChatStream that make up the health of the stream
StreamHealth ==
  <<failureCountRef, isPollingFallbackActive, retryTimeoutRef, timers, conns,
    closed, es>>

\* the step settles a POST: onError or onSuccess of usePostMessage runs
PostSettles ==
  \E c \in inflight :
    \/ PostError(c)
    \/ \E data \in StreamResponses(c) : PostSuccess(c, data)

\* C31: a step in which a POST settles, rejected or resolved, leaves the
\* failure counter, isPollingFallbackActive, the timer handle, the pending
\* timers and every stream connection as they were.
C31_SubmitLeavesStream ==
  [][ PostSettles => UNCHANGED StreamHealth ]_vars

\* a POST was rejected while the hook was in fallback with its timer pending
C31_Witness ==
  /\ CallsOf(log, "toast") # {}
  /\ isPollingFallbackActive
  /\ failureCountRef = MAX_CONSECUTIVE_FAILURES
  /\ retryTimeoutRef \in timers

\* C32: no two entries of a conversation's list have the same uuid, whatever
\* message events, duplicate-free snapshots and responses (a response may
\* list one uuid twice) have been merged into it.
C32_UniqueIds == \A c \in Keys : NoDup(store[c])

\* onSuccess has merged a response that lists one uuid twice into an empty
\* list: the first message was appended and the second met it
C32_Witness ==
  /\ Handled(log) = "onSuccess"
  /\ log[1][3] = <<"new", "newer">>
  /\ Len(store[chatId]) = 1

\* C33: while the hook is mounted, retryTimeoutRef holds a handle exactly
\* when a timer is pending, and that timer is the one it holds; and while
\* isPollingFallbackActive is true the timer is pending, so that its callback
\* can run and clear the flag.
C33_NoStuckFallback ==
  phase = "mounted" =>
    /\ timers = (IF retryTimeoutRef = 0 THEN {} ELSE {retryTimeoutRef})
    /\ isPollingFallbackActive =>
         /\ retryTimeoutRef \in timers
         /\ ENABLED TimerFire(retryTimeoutRef)

\* the fallback is rendered, polling has fetched a list and the timer is
\* still pending
C33_Witness ==
  /\ phase = "mounted"
  /\ isPollingFallbackActive /\ rendered
  /\ timers = {retryTimeoutRef}
  /\ CallsOf(log, "poll") = {} /\ ~fetching
  /\ store[chatId] # <<>>

\* the render that takes the hook to conversation c while
\* isPollingFallbackActive is true and the cool-down timer is pending
SwitchOutOfFallback(c) ==
  /\ isPollingFallbackActive
  /\ timers # {}
  /\ Switch(c)

\* C34: a render with a new conversation id during fallback clears the timer,
\* the failure counter and isPollingFallbackActive in that step, and from
\* there, unless the id changes again or the hook unmounts, the next render
\* opens a connection of the new conversation with the counter at 0, the flag
\* false and no timer pending; no timer has to fire for that.
C34_SwitchLeavesFallback ==
  /\ [][ \A c \in ChatIds :
           SwitchOutOfFallback(c)
           => /\ timers' = {} /\ retryTimeoutRef' = 0
              /\ failureCountRef' = 0
              /\ ~isPollingFallbackActive'
              /\ rendered' ]_vars
  /\ \A c \in ChatIds :
       (phase = "mounted" /\ chatId = c /\ CallsOf(log, "clearTimeout") # {})
       ~> \/ phase = "unmounted"
          \/ chatId # c
          \/ /\ es \in LiveIds /\ conns[es].chat = c
             /\ failureCountRef = 0
             /\ ~isPollingFallbackActive /\ ~rendered
             /\ timers = {}

\* the render after a switch out of fallback has opened the connection of
\* the new conversation, which has never lost a connection
C34_Witness ==
  /\ phase = "mounted"
  /\ CallsOf(log, "render") # {}
  /\ log[1][2] = FALSE
  /\ CallsOf(log, "open") # {}
  /\ chatId \in ChatIds /\ chatId \notin closed /\ closed # {}
  /\ failureCountRef = 0 /\ ~isPollingFallbackActive /\ timers = {}

\* the handle of the active conversation is "none" or a conversation
HandleIsServerIssued == sessionChatId \in {NEWCHAT_ID} \cup ChatIds

\* C35: when startChat fails, the session stays on the new chat, navigate is
\* not called and nothing is written to the stored drafts; the session's
\* chatId is never anything but absent or a conversation of the server.
C35_FailedCreationKeepsNone ==
  /\ [](HandleIsServerIssued)
  /\ [][ CreateSettled("undefined")
         => /\ sessionChatId' = NEWCHAT_ID
            /\ CallsOf(log', "navigate") = {}
            /\ drafts' = drafts ]_vars

\* the step completes a handleSubmit call that was not a suggestion
SettlesMessage ==
  /\ ~submitting.isSuggestion
  /\ \/ \E ok \in BOOLEAN : SendSettled(ok)
     \/ \E uuid \in ChatIds \cup {"undefined"} : CreateSettled(uuid)

\* the step completes a handleSubmit call that was a suggestion
SettlesSuggestion ==
  /\ submitting.isSuggestion
  /\ \/ \E ok \in BOOLEAN : SendSettled(ok)
     \/ \E uuid \in ChatIds \cup {"undefined"} : CreateSettled(uuid)

\* C36: when a handleSubmit call that sent a message completes, resolved or
\* rejected, the stored draft of the conversation it was made in has an empty
\* MESSAGE_DRAFT, a conversation it has created has one too, and so has the
\* session unless the user has gone to another conversation; when a call
\* that sent a suggestion completes, the MESSAGE_DRAFT of every stored draft
\* is as before and that of a created conversation is the one of the call;
\* a call with nothing to send makes no request and changes nothing.
C36_DraftClearedOnSettle ==
  /\ [][ SettlesMessage
         => /\ submitting.kind = "send"
                 => /\ drafts'[submitting.chatId] = Cleared
                    /\ sessionChatId = submitting.chatId
                         => messageDraft(chatDraft') = ""
            /\ submitting.kind = "start"
                 => /\ sessionChatId' \in ChatIds
                         => drafts'[sessionChatId'] \in {EmptyObject, Cleared}
                    /\ messageDraft(chatDraft') = "" ]_vars
  /\ [][ SettlesSuggestion
         => /\ submitting.kind = "send" => UNCHANGED <<drafts, chatDraft>>
            /\ submitting.kind = "start"
                 => /\ \A k \in DraftKeys :
                         \/ drafts'[k] = drafts[k]
                         \/ /\ k = sessionChatId' \/ k = ""
                            /\ messageDraft(drafts'[k])
                                 = messageDraft(submitting.chatDraft)
                    /\ messageDraft(chatDraft')
                         = messageDraft(submitting.chatDraft) ]_vars
  /\ [][ \A isSuggestion \in BOOLEAN : \A customMessage \in {"", "hi", "question"} :
           ( /\ MessageToSend(isSuggestion, customMessage) = ""
             /\ HandleSubmit(isSuggestion, customMessage) )
           => /\ UNCHANGED sessionVars
              /\ CallsOf(log', "send") = {} /\ CallsOf(log', "start") = {} ]_vars

\* a message was sent from a conversation, the user went on typing, the
\* request was rejected and the typed draft is cleared
C36_Witness ==
  /\ Handled(log) = "settled"
  /\ log[1][2] = "send" /\ log[1][3] = FALSE
  /\ CallsOf(log, "setStorageItem") # {}
  /\ sessionChatId \in ChatIds
  /\ drafts[sessionChatId] = Cleared
  /\ chatDraft = Cleared

TypeOK ==
  /\ phase \in {"init", "mounted", "unmounted"}
  /\ chatId \in Keys
  /\ failureCountRef \in 0..MaxFailures

====
